---- MODULE Spec2Model ----
(***************************************************************************)
(* Trading Confluence Scanner: the trend-and-pattern detection engine and  *)
(* the GET /api/scan handler (server code embedded in src/README.md, lines *)
(* 130-571) and the browser's polling loop (src/app.js).                   *)
(*                                                                         *)
(* Conventions of the model                                                *)
(*  - A candle is a record [time, high, low, close]; `open` is never read  *)
(*    by the engine and is left out.                                       *)
(*  - Candle indices are zero-based as in the source; At(series, i) reads  *)
(*    series[i] of the source.                                             *)
(*  - Prices are integers.  The source compares IEEE doubles; on integer   *)
(*    prices every comparison of the pattern code (a quotient against      *)
(*    0.01 / 0.015 / 0.02, a product by 1.01 / 0.99) has the same outcome  *)
(*    as the exact rational comparison, which is what the model computes.  *)
(*    The EMA is computed in exact rationals (rounding of the doubles is   *)
(*    not modelled).                                                       *)
(*  - A JavaScript exception (reading a field of `undefined`) is the       *)
(*    value Threw.                                                         *)
(***************************************************************************)
EXTENDS Integers, Sequences, FiniteSets, TLC

VARIABLES
    candles,     \* the candle series handed to the operation
    lookback,    \* findPivots' lookback argument
    pivots,      \* result of findPivots
    trend,       \* result of detectTrendHTF
    mTop,        \* detectPatternWithConfluence's local mTop / result of detectMTop
    invM,        \* ... invM / result of detectInvertedM
    hs,          \* ... hs / result of detectHeadAndShoulders
    invHs,       \* ... invHs / result of detectInverseHeadAndShoulders
    dayTrend,    \* argument dayTrend of detectPatternWithConfluence
    weekTrend,   \* argument weekTrend
    tfLabel,     \* argument tfLabel
    signal,      \* result of detectPatternWithConfluence
    threw,       \* TRUE iff the operation raised an exception
    op,          \* the operation that was called ("none" before the call)
    pc           \* "ready" before the call, "done" after it

\* GET /api/scan (src/README.md, lines 473-543).  The handler's locals
\* dayTrend, weekTrend, tfCandles and signal are the variables dayTrend,
\* weekTrend, candles and signal above.
VARIABLES
    symbol,        \* req.query.symbol ("" when the parameter is missing)
    mongoUri,      \* process.env.MONGODB_URI ("" when unset)
    dayFetch,      \* the day fetchSeries promise: "none", "pending", "resolved"
    weekFetch,     \* the week fetchSeries promise
    dayCandles,    \* local `day`: the resolved day series
    weekCandles,   \* local `week`: the resolved week series
    tfIndex,       \* position of the for-of loop in PATTERN_TIMEFRAMES (zero-based)
    bestSignal,    \* local bestSignal
    lastClose,     \* local lastClose
    signals,       \* the documents of the Signal collection
    storeAttempts, \* number of Signal.create calls made
    response,      \* the HTTP response sent (Null before it is sent)
    fetchLog,      \* the intervals requested from fetchSeries, in call order
    fetched,       \* what the intraday fetchSeries calls resolved to, in order
    evaluated,     \* the detectPatternWithConfluence calls made, with results
    scanPc         \* "idle", "awaitHtf", "awaitTf", "awaitStore", "responded"

\* Browser orchestration (src/app.js, lines 179-258).
VARIABLES
    pollingTimer,  \* module variable pollingTimer (NoTimer for null)
    timers,        \* the interval timers armed in the event loop
    ticks,         \* the tick() calls made so far, each with its position
    status,        \* text of #status
    startDisabled, \* #startBtn.disabled
    stopDisabled,  \* #stopBtn.disabled
    requests,      \* number of /api/scan requests issued so far
    lastClick      \* the button clicked last: "none", "start", "stop"

engineVars == <<candles, lookback, pivots, trend, mTop, invM, hs, invHs,
                dayTrend, weekTrend, tfLabel, signal, threw, op, pc>>

scanVars == <<symbol, mongoUri, dayFetch, weekFetch, dayCandles, weekCandles,
              tfIndex, bestSignal,
              lastClose, signals, storeAttempts, response, fetchLog, fetched,
              evaluated, scanPc>>

browserVars == <<pollingTimer, timers, ticks, status, startDisabled, stopDisabled,
                 requests, lastClick>>

vars == <<engineVars, scanVars, browserVars>>

----------------------------------------------------------------------------
(* Values *)

Null == [type |-> "null"]
Threw == [type |-> "TypeError"]

Abs(x) == IF x < 0 THEN -x ELSE x
Max2(a, b) == IF a > b THEN a ELSE b
Min2(a, b) == IF a < b THEN a ELSE b

At(series, i) == series[i + 1]

\* Array.prototype.slice(-k): the last k elements (all of them when fewer).
SliceLast(s, k) == IF Len(s) <= k THEN s ELSE SubSeq(s, Len(s) - k + 1, Len(s))

\* Array.prototype.filter((x) => x > lo && x < hi) on an index array.
RECURSIVE FilterBetween(_, _, _)
FilterBetween(s, lo, hi) ==
    IF s = <<>> THEN <<>>
    ELSE LET rest == FilterBetween(Tail(s), lo, hi)
         IN IF Head(s) > lo /\ Head(s) < hi THEN <<Head(s)>> \o rest ELSE rest

----------------------------------------------------------------------------
(* findPivots *)

\* The outer loop's condition, `i < candles.length - lookback`.
PivotLoopContinues_NoTailGuard(series, lb, i) == i < Len(series)

PivotLoopContinues(series, lb, i) == i < Len(series) - lb

\* highs.push(i) / lows.push(i)
PivotPush_Unshift(list, i) == <<i>> \o list

PivotPush(list, i) == Append(list, i)

\* The inner loop: candle i against every candle of its window.
IsHighIn_Strict(series, i, win) ==
    \A j \in win \ {i} : At(series, j).high < At(series, i).high

IsHighIn(series, i, win) == \A j \in win : ~(At(series, j).high > At(series, i).high)

IsLowIn(series, i, win) == \A j \in win : ~(At(series, j).low < At(series, i).low)

RECURSIVE PivotLoop(_, _, _, _, _)
PivotLoop(series, lb, i, highs, lows) ==
    IF ~PivotLoopContinues(series, lb, i)
    THEN [type |-> "pivots", highs |-> highs, lows |-> lows]
    ELSE LET win == (i - lb) .. (i + lb)
         IN IF \E j \in win : j < 0 \/ j >= Len(series)
            THEN Threw      \* candles[j] is undefined: candles[j].high throws
            ELSE PivotLoop(series, lb, i + 1,
                           IF IsHighIn(series, i, win) THEN PivotPush(highs, i) ELSE highs,
                           IF IsLowIn(series, i, win) THEN PivotPush(lows, i) ELSE lows)

findPivots(series, lb) == PivotLoop(series, lb, lb, <<>>, <<>>)

----------------------------------------------------------------------------
(* approxEqual and the percentage tests, in exact arithmetic *)

\* Tolerances, in thousandths.
MTopTolerance == 15
ShoulderTolerance == 20
NecklineTolerance == 20

\* diff / avg <= tolerance, with avg = (|a| + |b|) / 2 || 1.
approxEqual(a, b, tolPermille) ==
    LET diff == Abs(a - b)
        sum == Abs(a) + Abs(b)
    IN IF sum = 0
       THEN diff * 1000 <= tolPermille
       ELSE 2 * diff * 1000 <= tolPermille * sum

\* Program constants of the pattern matchers.
PatternLookback == 2
MTopWindow == 4
HsWindow == 6

\* dropPerc < 0.01, dropPerc = (max - low) / max; prices are positive.
DropTooSmall(top, low) == (top - low) * 100 < top

\* risePerc < 0.01, risePerc = (high - min) / min; prices are positive.
RiseTooSmall(bottom, high) == (high - bottom) * 100 < bottom

\* head > shoulder * 1.01
HeadAbove_AtLeast(head, shoulder) == head * 100 >= shoulder * 101

HeadAbove(head, shoulder) == head * 100 > shoulder * 101

\* head < shoulder * 0.99
HeadBelow(head, shoulder) == head * 100 < shoulder * 99

\* A pattern result: `indices` keeps the object's keys in insertion order,
\* which is the order Object.values returns them in.
Match(type, indices) == [type |-> type, indices |-> indices]

----------------------------------------------------------------------------
(* detectMTop *)

RECURSIVE MTopLoop(_, _, _, _)
MTopLoop(series, lastHighs, lows, i) ==
    IF ~(i >= 1) THEN Null
    ELSE LET h1Idx == lastHighs[i]          \* lastHighs[i - 1], zero-based
             h2Idx == lastHighs[i + 1]      \* lastHighs[i]
             midLows == FilterBetween(lows, h1Idx, h2Idx)
         IN IF Len(midLows) = 0 THEN MTopLoop(series, lastHighs, lows, i - 1)
            ELSE LET lIdx == midLows[1]
                     h1 == At(series, h1Idx).high
                     h2 == At(series, h2Idx).high
                     low == At(series, lIdx).low
                 IN IF ~approxEqual(h1, h2, MTopTolerance)
                    THEN MTopLoop(series, lastHighs, lows, i - 1)
                    ELSE IF DropTooSmall(Max2(h1, h2), low)
                    THEN MTopLoop(series, lastHighs, lows, i - 1)
                    ELSE Match("M-top", <<<<"h1Idx", h1Idx>>, <<"h2Idx", h2Idx>>,
                                          <<"lIdx", lIdx>>>>)

detectMTop(series) ==
    LET pv == findPivots(series, PatternLookback)
    IN IF pv.type = "TypeError" THEN Threw
       ELSE IF Len(pv.highs) < 2 \/ Len(pv.lows) < 1 THEN Null
       ELSE LET lastHighs == SliceLast(pv.highs, MTopWindow)
            IN MTopLoop(series, lastHighs, pv.lows, Len(lastHighs) - 2)

----------------------------------------------------------------------------
(* detectInvertedM *)

RECURSIVE InvertedMLoop(_, _, _, _)
InvertedMLoop(series, lastLows, highs, i) ==
    IF ~(i >= 1) THEN Null
    ELSE LET l1Idx == lastLows[i]
             l2Idx == lastLows[i + 1]
             midHighs == FilterBetween(highs, l1Idx, l2Idx)
         IN IF Len(midHighs) = 0 THEN InvertedMLoop(series, lastLows, highs, i - 1)
            ELSE LET hIdx == midHighs[1]
                     l1 == At(series, l1Idx).low
                     l2 == At(series, l2Idx).low
                     high == At(series, hIdx).high
                 IN IF ~approxEqual(l1, l2, MTopTolerance)
                    THEN InvertedMLoop(series, lastLows, highs, i - 1)
                    ELSE IF RiseTooSmall(Min2(l1, l2), high)
                    THEN InvertedMLoop(series, lastLows, highs, i - 1)
                    ELSE Match("Inverted M", <<<<"l1Idx", l1Idx>>, <<"l2Idx", l2Idx>>,
                                               <<"hIdx", hIdx>>>>)

detectInvertedM(series) ==
    LET pv == findPivots(series, PatternLookback)
    IN IF pv.type = "TypeError" THEN Threw
       ELSE IF Len(pv.lows) < 2 \/ Len(pv.highs) < 1 THEN Null
       ELSE LET lastLows == SliceLast(pv.lows, MTopWindow)
            IN InvertedMLoop(series, lastLows, pv.highs, Len(lastLows) - 2)

----------------------------------------------------------------------------
(* detectHeadAndShoulders *)

RECURSIVE HsLoop(_, _, _, _)
HsLoop(series, lastHighs, lows, i) ==
    IF ~(i >= 0) THEN Null
    ELSE LET lsIdx == lastHighs[i + 1]
             headIdx == lastHighs[i + 2]
             rsIdx == lastHighs[i + 3]
             ls == At(series, lsIdx).high
             head == At(series, headIdx).high
             rs == At(series, rsIdx).high
             neckLows == FilterBetween(lows, lsIdx, rsIdx)
         IN IF ~(HeadAbove(head, ls) /\ HeadAbove(head, rs))
            THEN HsLoop(series, lastHighs, lows, i - 1)
            ELSE IF ~approxEqual(ls, rs, ShoulderTolerance)
            THEN HsLoop(series, lastHighs, lows, i - 1)
            ELSE IF Len(neckLows) < 2
            THEN HsLoop(series, lastHighs, lows, i - 1)
            ELSE LET n1Idx == neckLows[1]
                     n2Idx == neckLows[Len(neckLows)]
                     n1 == At(series, n1Idx).low
                     n2 == At(series, n2Idx).low
                 IN IF ~approxEqual(n1, n2, NecklineTolerance)
                    THEN HsLoop(series, lastHighs, lows, i - 1)
                    ELSE Match("Head & Shoulders",
                               <<<<"lsIdx", lsIdx>>, <<"headIdx", headIdx>>,
                                 <<"rsIdx", rsIdx>>, <<"n1Idx", n1Idx>>,
                                 <<"n2Idx", n2Idx>>>>)

detectHeadAndShoulders(series) ==
    LET pv == findPivots(series, PatternLookback)
    IN IF pv.type = "TypeError" THEN Threw
       ELSE IF Len(pv.highs) < 3 \/ Len(pv.lows) < 2 THEN Null
       ELSE LET lastHighs == SliceLast(pv.highs, HsWindow)
            IN IF Len(lastHighs) < 3 THEN Null
               ELSE HsLoop(series, lastHighs, pv.lows, Len(lastHighs) - 3)

----------------------------------------------------------------------------
(* detectInverseHeadAndShoulders *)

RECURSIVE InvHsLoop(_, _, _, _)
InvHsLoop(series, lastLows, highs, i) ==
    IF ~(i >= 0) THEN Null
    ELSE LET lsIdx == lastLows[i + 1]
             headIdx == lastLows[i + 2]
             rsIdx == lastLows[i + 3]
             ls == At(series, lsIdx).low
             head == At(series, headIdx).low
             rs == At(series, rsIdx).low
             neckHighs == FilterBetween(highs, lsIdx, rsIdx)
         IN IF ~(HeadBelow(head, ls) /\ HeadBelow(head, rs))
            THEN InvHsLoop(series, lastLows, highs, i - 1)
            ELSE IF ~approxEqual(ls, rs, ShoulderTolerance)
            THEN InvHsLoop(series, lastLows, highs, i - 1)
            ELSE IF Len(neckHighs) < 2
            THEN InvHsLoop(series, lastLows, highs, i - 1)
            ELSE LET n1Idx == neckHighs[1]
                     n2Idx == neckHighs[Len(neckHighs)]
                     n1 == At(series, n1Idx).high
                     n2 == At(series, n2Idx).high
                 IN IF ~approxEqual(n1, n2, NecklineTolerance)
                    THEN InvHsLoop(series, lastLows, highs, i - 1)
                    ELSE Match("Inverse Head & Shoulders",
                               <<<<"lsIdx", lsIdx>>, <<"headIdx", headIdx>>,
                                 <<"rsIdx", rsIdx>>, <<"n1Idx", n1Idx>>,
                                 <<"n2Idx", n2Idx>>>>)

detectInverseHeadAndShoulders(series) ==
    LET pv == findPivots(series, PatternLookback)
    IN IF pv.type = "TypeError" THEN Threw
       ELSE IF Len(pv.lows) < 3 \/ Len(pv.highs) < 2 THEN Null
       ELSE LET lastLows == SliceLast(pv.lows, HsWindow)
            IN IF Len(lastLows) < 3 THEN Null
               ELSE InvHsLoop(series, lastLows, pv.highs, Len(lastLows) - 3)

----------------------------------------------------------------------------
(* buildPatternSignal *)

\* Date.prototype.toISOString.  A candle's time is a count of hours since
\* the epoch; the ISO text is its calendar breakdown (day, hour of day),
\* whose lexicographic order is the order of the instants.
toISOString(t) == [type |-> "iso", day |-> t \div 24, hour |-> t % 24]

IsoLeq(a, b) == a.day < b.day \/ (a.day = b.day /\ a.hour <= b.hour)

\* Object.values(indices)
ObjectValues(indices) == [k \in 1 .. Len(indices) |-> indices[k][2]]

\* Math.min(...values), Math.max(...values) on a non-empty array.
RECURSIVE MathMin(_)
MathMin(values) ==
    IF Len(values) = 1 THEN values[1] ELSE Min2(values[1], MathMin(Tail(values)))

RECURSIVE MathMax(_)
MathMax(values) ==
    IF Len(values) = 1 THEN values[1] ELSE Max2(values[1], MathMax(Tail(values)))

\* startIdx / endIdx of the window
SpanStart(indexValues) == MathMin(indexValues)

SpanEnd_LastGiven(indexValues) == indexValues[Len(indexValues)]

SpanEnd(indexValues) == MathMax(indexValues)

\* candles[idx]?.time || null, then `x ? x.toISOString() : null`
TimeTextAt(series, idx) ==
    IF idx >= 0 /\ idx < Len(series) THEN toISOString(At(series, idx).time) ELSE Null

buildPatternSignal(direction, tf, patternResult, series) ==
    LET indexValues == ObjectValues(patternResult.indices)
        some == Len(indexValues) > 0
    IN [direction |-> direction,
        pattern |-> patternResult.type,
        timeframe |-> tf,
        from |-> IF some THEN TimeTextAt(series, SpanStart(indexValues)) ELSE Null,
        to |-> IF some THEN TimeTextAt(series, SpanEnd(indexValues)) ELSE Null]

----------------------------------------------------------------------------
(* detectPatternWithConfluence *)

\* isBearishHTF / isBullishHTF
IsConfluence_Either(day, week, direction) ==
    day.trend = direction \/ week.trend = direction

IsConfluence(day, week, direction) ==
    day.trend = direction /\ week.trend = direction

\* `a || b` on two pattern results
OrElse_Swapped(a, b) == IF b # Null THEN b ELSE a

OrElse(a, b) == IF a # Null THEN a ELSE b

\* Lines 446-459: the decision on the four matcher results.
ConfluenceGate(m, im, h, ih, tf, day, week, series) ==
    IF IsConfluence(day, week, "bearish") /\ (m # Null \/ h # Null)
    THEN buildPatternSignal("bearish", tf, OrElse(m, h), series)
    ELSE IF IsConfluence(day, week, "bullish") /\ (im # Null \/ ih # Null)
    THEN buildPatternSignal("bullish", tf, OrElse(im, ih), series)
    ELSE Null

\* Lines 441-444: the four locals.
PatternLocals(series) ==
    [mTop |-> detectMTop(series),
     invM |-> detectInvertedM(series),
     hs |-> detectHeadAndShoulders(series),
     invHs |-> detectInverseHeadAndShoulders(series)]

LocalsThrew(loc) == Threw \in {loc.mTop, loc.invM, loc.hs, loc.invHs}

\* The function from its locals on.
ConfluenceFromLocals(loc, series, tf, day, week) ==
    IF LocalsThrew(loc) THEN Threw
    ELSE ConfluenceGate(loc.mTop, loc.invM, loc.hs, loc.invHs, tf, day, week, series)

detectPatternWithConfluence(series, tf, day, week) ==
    ConfluenceFromLocals(PatternLocals(series), series, tf, day, week)

----------------------------------------------------------------------------
(* ema and detectTrendHTF, in exact rational arithmetic *)

MinCandles == 60
Ema50Period == 50
Ema200Period == 200

RECURSIVE GCD(_, _)
GCD(a, b) == IF b = 0 THEN a ELSE GCD(b, a % b)

\* The rational n / d (d > 0, n >= 0) in lowest terms.
Rat(n, d) == LET g == GCD(n, d) IN [num |-> n \div g, den |-> d \div g]

\* a < b for non-negative rationals, by continued-fraction expansion (no
\* product of numerators and denominators is formed).
RECURSIVE FracLT(_, _, _, _)
FracLT(an, ad, bn, bd) ==
    LET qa == an \div ad
        qb == bn \div bd
        ra == an % ad
        rb == bn % bd
    IN IF qa # qb THEN qa < qb
       ELSE IF rb = 0 THEN FALSE
       ELSE IF ra = 0 THEN TRUE
       ELSE FracLT(bd, rb, ad, ra)

RatLT(a, b) == FracLT(a.num, a.den, b.num, b.den)

\* reduce((sum, v) => sum + v, 0) over values[lo .. hi - 1] (zero-based),
\* the range split in halves to keep the evaluation shallow.
RECURSIVE SumRange(_, _, _)
SumRange(values, lo, hi) ==
    IF hi <= lo THEN 0
    ELSE IF hi = lo + 1 THEN At(values, lo)
    ELSE LET mid == (lo + hi) \div 2
         IN SumRange(values, lo, mid) + SumRange(values, mid, hi)

\* values[i] * k + prevEma * (1 - k), k = 2 / (period + 1)
EmaStep(v, prevEma, period) ==
    Rat(2 * v * prevEma.den + (period - 1) * prevEma.num, (period + 1) * prevEma.den)

\* The loop's iterations lo <= i < hi, entered with prevEma: the values pushed
\* onto `result`, in order.  The range is split in halves to keep the
\* evaluation shallow; the second half starts from the first half's last value.
RECURSIVE EmaLoop(_, _, _, _, _)
EmaLoop(values, period, lo, hi, prevEma) ==
    IF hi <= lo THEN <<>>
    ELSE IF hi = lo + 1 THEN <<EmaStep(At(values, lo), prevEma, period)>>
    ELSE LET mid == (lo + hi) \div 2
             first == EmaLoop(values, period, lo, mid, prevEma)
         IN first \o EmaLoop(values, period, mid, hi, first[Len(first)])

\* Lines 233-241: the seed (mean of values.slice(0, period)) and the loop.
EmaBody(values, period) ==
    LET seed == Rat(SumRange(values, 0, Min2(period, Len(values))), period)
    IN <<seed>> \o EmaLoop(values, period, period, Len(values), seed)

ema_NoLengthGuard(values, period) == EmaBody(values, period)

ema(values, period) ==
    IF Len(values) < period THEN <<>> ELSE EmaBody(values, period)

TrendResult(t, reason) == [trend |-> t, reason |-> reason]

\* Lines 260-267: the classification on the last close and the last EMAs.
Classify_NonStrict(closeLast, lastEma50, lastEma200) ==
    IF ~RatLT(closeLast, lastEma50) /\ ~RatLT(lastEma50, lastEma200)
    THEN TrendResult("bullish", "Close > EMA50 > EMA200")
    ELSE IF ~RatLT(lastEma50, closeLast) /\ ~RatLT(lastEma200, lastEma50)
    THEN TrendResult("bearish", "Close < EMA50 < EMA200")
    ELSE TrendResult("sideways", "Mixed EMAs")

Classify(closeLast, lastEma50, lastEma200) ==
    IF RatLT(lastEma50, closeLast) /\ RatLT(lastEma200, lastEma50)
    THEN TrendResult("bullish", "Close > EMA50 > EMA200")
    ELSE IF RatLT(closeLast, lastEma50) /\ RatLT(lastEma50, lastEma200)
    THEN TrendResult("bearish", "Close < EMA50 < EMA200")
    ELSE TrendResult("sideways", "Mixed EMAs")

Closes(series) == [i \in 1 .. Len(series) |-> series[i].close]

detectTrendHTF(series) ==
    IF Len(series) < MinCandles THEN TrendResult("neutral", "Not enough data")
    ELSE LET closes == Closes(series)
             ema50 == ema(closes, Ema50Period)
             ema200 == ema(closes, Ema200Period)
         IN IF Len(ema200) = 0 THEN TrendResult("neutral", "Not enough EMA data")
            ELSE Classify(Rat(closes[Len(closes)], 1),
                          ema50[Len(ema50)], ema200[Len(ema200)])

\* The values detectTrendHTF can return.
TrendResults ==
    { TrendResult("neutral", "Not enough data"),
      TrendResult("neutral", "Not enough EMA data"),
      TrendResult("bullish", "Close > EMA50 > EMA200"),
      TrendResult("bearish", "Close < EMA50 < EMA200"),
      TrendResult("sideways", "Mixed EMAs") }

\* PATTERN_TIMEFRAMES' keys
TimeframeKeys == {"1h", "4h"}

----------------------------------------------------------------------------
(* Input families *)

MaxFreeLen == 5
MaxLookback == 2
MaxBlocks == 3
MaxTail == 5
MaxGateBlocks == 4
MaxTrendTail == 2

\* A candle series from its (high, low) pairs; candle i opens 4 i hours
\* after the epoch and closes at its low.
MkSeries(f) ==
    [i \in 1 .. Len(f) |->
        [time |-> 4 * (i - 1), high |-> f[i].high, low |-> f[i].low, close |-> f[i].low]]

\* Short unconstrained series.
FreeKinds == {[high |-> h, low |-> l] : h \in {2, 3}, l \in {1, 2}}

FreeSeries == UNION {[1 .. n -> FreeKinds] : n \in 0 .. MaxFreeLen}

\* Zig-zag series: candle 3k+2 carries the k-th chosen high, candle 3k+3 the
\* k-th chosen low, every other high and low is the filler's; `tail` more
\* filler candles follow.  The pivots are whatever findPivots makes of it.
Filler == [high |-> 995, low |-> 992]

HighKinds == {1000, 1010, 1020}
LowKinds == {980, 960, 993}
GateHighKinds == {1000, 1020}
GateLowKinds == {980, 960}

ZigZag(highSlots, lowSlots, tail) ==
    LET b == Len(highSlots)
        n == 3 * b + 3 + tail
    IN MkSeries([i \in 1 .. n |->
          LET z == i - 1
          IN [high |-> IF z % 3 = 2 /\ (z - 2) \div 3 < b
                       THEN highSlots[(z - 2) \div 3 + 1] ELSE Filler.high,
              low |-> IF z % 3 = 0 /\ z >= 3 /\ z \div 3 <= b
                      THEN lowSlots[z \div 3] ELSE Filler.low]])

\* Higher-timeframe series: n candles, all closing at `base` except the last ones.
TrendCloses == {4, 5, 6}

TrendLengths ==
    {0, MinCandles - 1, MinCandles, Ema200Period - 1, Ema200Period, Ema200Period + 1}

TrendSeries(n, base, lastCloses) ==
    MkSeries([i \in 1 .. n |->
        LET c == IF i <= n - Len(lastCloses) THEN base
                 ELSE lastCloses[i - (n - Len(lastCloses))]
        IN [high |-> c, low |-> c]])

----------------------------------------------------------------------------
(* The request handler and the browser before anything has happened *)

\* pollingTimer = null
NoTimer == 0

\* The handler before a request arrives.
ScanIdle(sym, uri) ==
    /\ symbol = sym
    /\ mongoUri = uri
    /\ dayFetch = "none"
    /\ weekFetch = "none"
    /\ dayCandles = Null
    /\ weekCandles = Null
    /\ tfIndex = 0
    /\ bestSignal = Null
    /\ lastClose = Null
    /\ signals = <<>>
    /\ storeAttempts = 0
    /\ response = Null
    /\ fetchLog = <<>>
    /\ fetched = <<>>
    /\ evaluated = <<>>
    /\ scanPc = "idle"

\* The page after DOMContentLoaded: `let pollingTimer = null`, no timer, no
\* tick; #stopBtn's initial `disabled` comes from the page's markup.
BrowserIdle(stopOff) ==
    /\ pollingTimer = NoTimer
    /\ timers = {}
    /\ ticks = <<>>
    /\ status = ""
    /\ startDisabled = FALSE
    /\ stopDisabled = stopOff
    /\ requests = 0
    /\ lastClick = "none"

----------------------------------------------------------------------------
(* State machine: one call of one engine entry point on one series *)

InitEngine(series) ==
    /\ candles = series
    /\ lookback = PatternLookback
    /\ pivots = Null
    /\ trend = Null
    /\ mTop = Null
    /\ invM = Null
    /\ hs = Null
    /\ invHs = Null
    /\ dayTrend = Null
    /\ weekTrend = Null
    /\ tfLabel = ""
    /\ signal = Null
    /\ threw = FALSE
    /\ op = "none"
    /\ pc = "ready"

InitWith(series) ==
    /\ InitEngine(series)
    /\ ScanIdle("", "")
    /\ BrowserIdle(TRUE)

InitPivot == \E f \in FreeSeries : InitWith(MkSeries(f))

InitMatch ==
    \E b \in 0 .. MaxBlocks, t \in 0 .. MaxTail :
        \E hsq \in [1 .. b -> HighKinds], lsq \in [1 .. b -> LowKinds] :
            InitWith(ZigZag(hsq, lsq, t))

InitGate ==
    \E b \in 0 .. MaxGateBlocks :
        \E hsq \in [1 .. b -> GateHighKinds], lsq \in [1 .. b -> GateLowKinds] :
            InitWith(ZigZag(hsq, lsq, 0))

InitTrend ==
    \E n \in TrendLengths, base \in TrendCloses, t \in 0 .. MaxTrendTail :
        /\ t <= n
        /\ \E lastCloses \in [1 .. t -> TrendCloses] :
              InitWith(TrendSeries(n, base, lastCloses))

\* A result, with an exception recorded in `threw`.
Returned(r) == IF r = Threw THEN Null ELSE r

CallFindPivots ==
    /\ pc = "ready"
    /\ \E lb \in 1 .. MaxLookback :
          \E r \in {findPivots(candles, lb)} :
             /\ lookback' = lb
             /\ pivots' = Returned(r)
             /\ threw' = (r = Threw)
    /\ op' = "findPivots"
    /\ pc' = "done"
    /\ UNCHANGED <<candles, trend, mTop, invM, hs, invHs, dayTrend, weekTrend,
                   tfLabel, signal>>
    /\ UNCHANGED <<scanVars, browserVars>>

CallDetectMTop ==
    /\ pc = "ready"
    /\ \E r \in {detectMTop(candles)} :
          mTop' = Returned(r) /\ threw' = (r = Threw)
    /\ op' = "detectMTop"
    /\ pc' = "done"
    /\ UNCHANGED <<candles, lookback, pivots, trend, invM, hs, invHs, dayTrend,
                   weekTrend, tfLabel, signal>>
    /\ UNCHANGED <<scanVars, browserVars>>

CallDetectInvertedM ==
    /\ pc = "ready"
    /\ \E r \in {detectInvertedM(candles)} :
          invM' = Returned(r) /\ threw' = (r = Threw)
    /\ op' = "detectInvertedM"
    /\ pc' = "done"
    /\ UNCHANGED <<candles, lookback, pivots, trend, mTop, hs, invHs, dayTrend,
                   weekTrend, tfLabel, signal>>
    /\ UNCHANGED <<scanVars, browserVars>>

CallDetectHeadAndShoulders ==
    /\ pc = "ready"
    /\ \E r \in {detectHeadAndShoulders(candles)} :
          hs' = Returned(r) /\ threw' = (r = Threw)
    /\ op' = "detectHeadAndShoulders"
    /\ pc' = "done"
    /\ UNCHANGED <<candles, lookback, pivots, trend, mTop, invM, invHs, dayTrend,
                   weekTrend, tfLabel, signal>>
    /\ UNCHANGED <<scanVars, browserVars>>

CallDetectInverseHeadAndShoulders ==
    /\ pc = "ready"
    /\ \E r \in {detectInverseHeadAndShoulders(candles)} :
          invHs' = Returned(r) /\ threw' = (r = Threw)
    /\ op' = "detectInverseHeadAndShoulders"
    /\ pc' = "done"
    /\ UNCHANGED <<candles, lookback, pivots, trend, mTop, invM, hs, dayTrend,
                   weekTrend, tfLabel, signal>>
    /\ UNCHANGED <<scanVars, browserVars>>

\* detectPatternWithConfluence(candles, tf, day, week): its four locals and
\* its result.
CallDetectPatternWithConfluence ==
    /\ pc = "ready"
    /\ \E loc \in {PatternLocals(candles)} :
          /\ mTop' = Returned(loc.mTop)
          /\ invM' = Returned(loc.invM)
          /\ hs' = Returned(loc.hs)
          /\ invHs' = Returned(loc.invHs)
          /\ \E tf \in TimeframeKeys, day \in TrendResults, week \in TrendResults :
                LET r == ConfluenceFromLocals(loc, candles, tf, day, week)
                IN /\ tfLabel' = tf
                   /\ dayTrend' = day
                   /\ weekTrend' = week
                   /\ signal' = Returned(r)
                   /\ threw' = (r = Threw)
    /\ op' = "detectPatternWithConfluence"
    /\ pc' = "done"
    /\ UNCHANGED <<candles, lookback, pivots, trend>>
    /\ UNCHANGED <<scanVars, browserVars>>

CallDetectTrendHTF ==
    /\ pc = "ready"
    /\ trend' = detectTrendHTF(candles)
    /\ threw' = FALSE
    /\ op' = "detectTrendHTF"
    /\ pc' = "done"
    /\ UNCHANGED <<candles, lookback, pivots, mTop, invM, hs, invHs, dayTrend,
                   weekTrend, tfLabel, signal>>
    /\ UNCHANGED <<scanVars, browserVars>>

NextMatch ==
    \/ CallDetectMTop
    \/ CallDetectHeadAndShoulders

NextPivot ==
    \/ CallFindPivots
    \/ CallDetectMTop
    \/ CallDetectInvertedM
    \/ CallDetectHeadAndShoulders
    \/ CallDetectInverseHeadAndShoulders
    \/ CallDetectPatternWithConfluence

\* Short series, every entry point of the pattern side.
SpecPivot == InitPivot /\ [][NextPivot]_vars

\* Zig-zag series, the two bearish matchers.
SpecMatch == InitMatch /\ [][NextMatch]_vars

\* Zig-zag series, the whole detectPatternWithConfluence.
SpecGate == InitGate /\ [][CallDetectPatternWithConfluence]_vars

\* Higher-timeframe series, detectTrendHTF.
SpecTrend == InitTrend /\ [][CallDetectTrendHTF]_vars

----------------------------------------------------------------------------
(* GET /api/scan: one request, from its arrival to its response *)

MaxScanBlocks == 3

HTF_DAY == [key |-> "1d", interval |-> "1day"]
HTF_WEEK == [key |-> "1w", interval |-> "1week"]
PATTERN_TIMEFRAMES ==
    <<[key |-> "1h", interval |-> "1h"], [key |-> "4h", interval |-> "4h"]>>

\* A rejected fetchSeries / Signal.create promise.
Rejected == [type |-> "Error"]

\* What a higher-timeframe fetchSeries may resolve to: no candles, 200
\* candles ending below a flat history, 200 candles ending above it.
HtfSeries ==
    {TrendSeries(0, 5, <<>>),
     TrendSeries(Ema200Period, 5, <<4>>),
     TrendSeries(Ema200Period, 5, <<6>>)}

\* What an intraday fetchSeries may resolve to: no candles, or a zig-zag of
\* MaxScanBlocks blocks whose troughs all have the same depth and whose peaks
\* are level except for at most one higher peak (block p; none when p = 0).
ScanSeries ==
    {<<>>} \cup
    {ZigZag([k \in 1 .. MaxScanBlocks |-> IF k = p THEN 1020 ELSE 1000],
            [k \in 1 .. MaxScanBlocks |-> l], 0) :
        p \in 0 .. MaxScanBlocks, l \in GateLowKinds}

\* res.status(400).json(...), res.json(...), res.status(500).json(...)
BadRequest == [status |-> 400, body |-> [error |-> "symbol query param is required"]]
Ok(body) == [status |-> 200, body |-> body]
ServerError == [status |-> 500, body |-> [error |-> "Scan failed"]]

\* Lines 526-532: the body of the 200 response.
ScanBody(best, lc) ==
    [symbol |-> symbol,
     lastClose |-> lc,
     dayTrend |-> dayTrend.trend,
     weekTrend |-> weekTrend.trend,
     signal |-> best]

\* Lines 511-521: the document handed to Signal.create.
SignalDocument(best, lc) ==
    [symbol |-> symbol,
     direction |-> best.direction,
     pattern |-> best.pattern,
     timeframe |-> best.timeframe,
     dayTrend |-> dayTrend.trend,
     weekTrend |-> weekTrend.trend,
     price |-> lc,
     patternFrom |-> best.from,
     patternTo |-> best.to]

\* Line 509: `if (bestSignal && mongoUri)`
StoreWanted(best) == best # Null /\ mongoUri # ""

\* Lines 502-505: `if (signal) { bestSignal = signal; break; }`
LoopBreaks_Never(sig) == FALSE

LoopBreaks(sig) == sig # Null

\* Lines 522-524 and 526: a rejected Signal.create is caught and logged, and
\* the handler goes on to its 200 response.
AfterStoreFailure_Uncaught(body) == ServerError

AfterStoreFailure(body) == Ok(body)

\* The outer catch (lines 533-541).
Fail500 ==
    /\ response' = ServerError
    /\ scanPc' = "responded"

\* Lines 509-532 up to the first await or the response.
FinishLoop(best, lc) ==
    /\ bestSignal' = best
    /\ lastClose' = lc
    /\ IF StoreWanted(best)
       THEN /\ storeAttempts' = storeAttempts + 1
            /\ scanPc' = "awaitStore"
            /\ UNCHANGED response
       ELSE /\ response' = Ok(ScanBody(best, lc))
            /\ scanPc' = "responded"
            /\ UNCHANGED storeAttempts

\* The for-of loop after an iteration that did not break: the next
\* timeframe's fetchSeries call, or the code after the loop.
Advance(best, lc) ==
    IF tfIndex + 1 < Len(PATTERN_TIMEFRAMES)
    THEN /\ tfIndex' = tfIndex + 1
         /\ fetchLog' = Append(fetchLog, PATTERN_TIMEFRAMES[tfIndex + 2].interval)
         /\ bestSignal' = best
         /\ lastClose' = lc
         /\ scanPc' = "awaitTf"
         /\ UNCHANGED <<response, storeAttempts>>
    ELSE /\ FinishLoop(best, lc)
         /\ UNCHANGED <<tfIndex, fetchLog>>

\* Lines 473-483: the request arrives; without a symbol it is answered 400,
\* otherwise both higher-timeframe series are requested.
ReceiveScan ==
    /\ scanPc = "idle"
    /\ IF symbol = ""
       THEN /\ response' = BadRequest
            /\ scanPc' = "responded"
            /\ UNCHANGED <<dayFetch, weekFetch, fetchLog>>
       ELSE /\ dayFetch' = "pending"
            /\ weekFetch' = "pending"
            /\ fetchLog' = <<HTF_DAY.interval, HTF_WEEK.interval>>
            /\ scanPc' = "awaitHtf"
            /\ UNCHANGED response
    /\ UNCHANGED <<symbol, mongoUri, dayCandles, weekCandles, tfIndex, bestSignal,
                   lastClose, signals, storeAttempts, fetched, evaluated>>
    /\ UNCHANGED <<engineVars, browserVars>>

\* Lines 485-491, run when Promise.all resolves: both trends, the two
\* locals, and the first intraday fetchSeries call.
StartPatternLoop(d, w) ==
    /\ dayTrend' = detectTrendHTF(d)
    /\ weekTrend' = detectTrendHTF(w)
    /\ bestSignal' = Null
    /\ lastClose' = Null
    /\ tfIndex' = 0
    /\ fetchLog' = Append(fetchLog, PATTERN_TIMEFRAMES[1].interval)
    /\ scanPc' = "awaitTf"
    /\ UNCHANGED response

\* One of the two higher-timeframe promises settles.  Promise.all rejects on
\* the first rejection and resolves when both have resolved.
HtfSettles(which, outcome) ==
    LET d == IF which = "day" THEN outcome ELSE dayCandles
        w == IF which = "week" THEN outcome ELSE weekCandles
        other == IF which = "day" THEN weekFetch ELSE dayFetch
    IN /\ dayFetch' = IF which = "day" THEN "resolved" ELSE dayFetch
       /\ weekFetch' = IF which = "week" THEN "resolved" ELSE weekFetch
       /\ dayCandles' = d
       /\ weekCandles' = w
       /\ IF other = "resolved"
          THEN StartPatternLoop(d, w)
          ELSE UNCHANGED <<dayTrend, weekTrend, bestSignal, lastClose, tfIndex,
                           fetchLog, scanPc, response>>

HtfRejects(which) ==
    /\ dayFetch' = IF which = "day" THEN "rejected" ELSE dayFetch
    /\ weekFetch' = IF which = "week" THEN "rejected" ELSE weekFetch
    /\ Fail500
    /\ UNCHANGED <<dayCandles, weekCandles, dayTrend, weekTrend, bestSignal,
                   lastClose, tfIndex, fetchLog>>

DayFetchSettles ==
    /\ scanPc = "awaitHtf"
    /\ dayFetch = "pending"
    /\ \/ \E outcome \in HtfSeries : HtfSettles("day", outcome)
       \/ HtfRejects("day")
    /\ UNCHANGED <<symbol, mongoUri, signals, storeAttempts, fetched, evaluated>>
    /\ UNCHANGED <<candles, lookback, pivots, trend, mTop, invM, hs, invHs, tfLabel,
                   signal, threw, op, pc>>
    /\ UNCHANGED browserVars

WeekFetchSettles ==
    /\ scanPc = "awaitHtf"
    /\ weekFetch = "pending"
    /\ \/ \E outcome \in HtfSeries : HtfSettles("week", outcome)
       \/ HtfRejects("week")
    /\ UNCHANGED <<symbol, mongoUri, signals, storeAttempts, fetched, evaluated>>
    /\ UNCHANGED <<candles, lookback, pivots, trend, mTop, invM, hs, invHs, tfLabel,
                   signal, threw, op, pc>>
    /\ UNCHANGED browserVars

\* The intraday fetchSeries call throws: the outer catch answers 500.
TfRejects(tf) ==
    /\ fetched' = Append(fetched, [timeframe |-> tf.key, ok |-> FALSE, result |-> <<>>])
    /\ Fail500
    /\ UNCHANGED <<tfIndex, fetchLog, bestSignal, lastClose, storeAttempts, evaluated>>
    /\ UNCHANGED <<candles, mTop, invM, hs, invHs, tfLabel, signal, threw, op, pc>>

\* Lines 494-506 on the candles the intraday fetchSeries call resolved to.
TfResolves(tf, tfCandles) ==
    /\ fetched' = Append(fetched, [timeframe |-> tf.key, ok |-> TRUE, result |-> tfCandles])
    /\ IF Len(tfCandles) = 0
       THEN /\ Advance(bestSignal, lastClose)
            /\ UNCHANGED evaluated
            /\ UNCHANGED <<candles, mTop, invM, hs, invHs, tfLabel, signal, threw,
                           op, pc>>
       ELSE \E loc \in {PatternLocals(tfCandles)} :
               LET r == ConfluenceFromLocals(loc, tfCandles, tf.key, dayTrend, weekTrend)
                   lc == tfCandles[Len(tfCandles)].close
               IN /\ candles' = tfCandles
                  /\ tfLabel' = tf.key
                  /\ mTop' = Returned(loc.mTop)
                  /\ invM' = Returned(loc.invM)
                  /\ hs' = Returned(loc.hs)
                  /\ invHs' = Returned(loc.invHs)
                  /\ signal' = Returned(r)
                  /\ threw' = (r = Threw)
                  /\ op' = "detectPatternWithConfluence"
                  /\ pc' = "done"
                  /\ evaluated' = Append(evaluated,
                        [timeframe |-> tf.key, signal |-> Returned(r)])
                  /\ IF r = Threw
                     THEN /\ Fail500
                          /\ lastClose' = lc
                          /\ UNCHANGED <<tfIndex, fetchLog, bestSignal, storeAttempts>>
                     ELSE IF LoopBreaks(r)
                     THEN /\ FinishLoop(r, lc)
                          /\ UNCHANGED <<tfIndex, fetchLog>>
                     ELSE Advance(bestSignal, lc)

\* Lines 493-506: one iteration of the for-of loop from the point where its
\* fetchSeries settles, and whatever follows without another await.
TfFetchSettles ==
    /\ scanPc = "awaitTf"
    /\ \/ TfRejects(PATTERN_TIMEFRAMES[tfIndex + 1])
       \/ \E tfCandles \in ScanSeries : TfResolves(PATTERN_TIMEFRAMES[tfIndex + 1], tfCandles)
    /\ UNCHANGED <<symbol, mongoUri, dayFetch, weekFetch, dayCandles, weekCandles,
                   signals>>
    /\ UNCHANGED <<lookback, pivots, trend, dayTrend, weekTrend>>
    /\ UNCHANGED browserVars

\* Lines 510-532: Signal.create settles; the response follows either way.
StoreSettles ==
    /\ scanPc = "awaitStore"
    /\ \/ /\ signals' = Append(signals, SignalDocument(bestSignal, lastClose))
          /\ response' = Ok(ScanBody(bestSignal, lastClose))
       \/ /\ response' = AfterStoreFailure(ScanBody(bestSignal, lastClose))
          /\ UNCHANGED signals
    /\ scanPc' = "responded"
    /\ UNCHANGED <<symbol, mongoUri, dayFetch, weekFetch, dayCandles, weekCandles,
                   tfIndex, bestSignal, lastClose, storeAttempts, fetchLog, fetched,
                   evaluated>>
    /\ UNCHANGED <<engineVars, browserVars>>

\* process.env.MONGODB_URI when it is set.
MongoUriSet == "mongodb://localhost/signals"

InitScan ==
    /\ InitEngine(<<>>)
    /\ \E sym \in {"", "EUR/GBP"}, uri \in {"", MongoUriSet} : ScanIdle(sym, uri)
    /\ BrowserIdle(TRUE)

NextScan ==
    \/ ReceiveScan
    \/ DayFetchSettles
    \/ WeekFetchSettles
    \/ TfFetchSettles
    \/ StoreSettles

\* One /api/scan request.
SpecScan == InitScan /\ [][NextScan]_vars

----------------------------------------------------------------------------
(* Properties *)

Done(name) == pc = "done" /\ op = name

SeqToSet(q) == {q[k] : k \in 1 .. Len(q)}

StrictlyIncreasing(q) == \A k \in 1 .. Len(q) - 1 : q[k] < q[k + 1]

SetMin(S) == CHOOSE x \in S : \A y \in S : x <= y
SetMax(S) == CHOOSE x \in S : \A y \in S : x >= y

\* The set of a match's span indices.
SpanOf(p) == {p.indices[k][2] : k \in 1 .. Len(p.indices)}

BothTrends(direction) ==
    dayTrend.trend = direction /\ weekTrend.trend = direction

\* C1: detectPatternWithConfluence emits a signal only when the day and the
\* week trend are both bullish or both bearish, and the signal's direction is
\* that shared direction; in every other combination of trends the result is
\* none, whatever the four matchers returned.
C1_SignalOnlyUnderConfluence ==
    Done("detectPatternWithConfluence") =>
        /\ ~threw
        /\ signal # Null =>
              /\ dayTrend.trend \in {"bullish", "bearish"}
              /\ weekTrend.trend = dayTrend.trend
              /\ signal.direction = dayTrend.trend
        /\ (~BothTrends("bullish") /\ ~BothTrends("bearish")) => signal = Null

\* Some matcher matched, the trends disagree in a bullish/bearish mix, and
\* nothing was emitted; and (same series family) a signal under agreement.
C1_Witness ==
    /\ Done("detectPatternWithConfluence")
    /\ dayTrend.trend = "bullish"
    /\ weekTrend.trend = "bearish"
    /\ mTop # Null
    /\ invM # Null
    /\ signal = Null

\* C2: under bearish confluence the signal's pattern is the M-top match when
\* there is one, otherwise the Head & Shoulders match, never a bullish
\* pattern; under bullish confluence it is the Inverted M match when there is
\* one, otherwise the Inverse Head & Shoulders match, never a bearish
\* pattern; a signal is emitted whenever confluence holds and a matcher of
\* that bias matched.
C2_FixedPriorityWithinBias ==
    Done("detectPatternWithConfluence") =>
        /\ BothTrends("bearish") =>
              /\ mTop # Null => (signal # Null /\ signal.pattern = "M-top")
              /\ (mTop = Null /\ hs # Null) =>
                    (signal # Null /\ signal.pattern = "Head & Shoulders")
              /\ (mTop = Null /\ hs = Null) => signal = Null
              /\ signal # Null => signal.direction = "bearish"
        /\ BothTrends("bullish") =>
              /\ invM # Null => (signal # Null /\ signal.pattern = "Inverted M")
              /\ (invM = Null /\ invHs # Null) =>
                    (signal # Null /\ signal.pattern = "Inverse Head & Shoulders")
              /\ (invM = Null /\ invHs = Null) => signal = Null
              /\ signal # Null => signal.direction = "bullish"

\* Both bearish matchers matched under bearish confluence and the M-top won.
C2_Witness ==
    /\ Done("detectPatternWithConfluence")
    /\ BothTrends("bearish")
    /\ mTop # Null
    /\ hs # Null
    /\ invM # Null
    /\ signal # Null
    /\ signal.pattern = "M-top"

----------------------------------------------------------------------------
(* The pattern matchers, stated from the pivots *)

\* The pivots of the series under the matchers' lookback.
PatternPivots == findPivots(candles, PatternLookback)

\* Adjacent pair (k, k+1) of `lastHighs` (one-based): a low pivot lies strictly
\* between, the highs are within 1.5 %, the first such low is at least 1 %
\* below the higher high.
MTopPairValid(lastHighs, lows, k) ==
    LET h1Idx == lastHighs[k]
        h2Idx == lastHighs[k + 1]
        between == {x \in SeqToSet(lows) : h1Idx < x /\ x < h2Idx}
        h1 == At(candles, h1Idx).high
        h2 == At(candles, h2Idx).high
    IN /\ between # {}
       /\ 2000 * Abs(h1 - h2) <= 15 * (h1 + h2)
       /\ 100 * (Max2(h1, h2) - At(candles, SetMin(between)).low) >= Max2(h1, h2)

MTopOfPair(lastHighs, lows, k) ==
    LET h1Idx == lastHighs[k]
        h2Idx == lastHighs[k + 1]
        between == {x \in SeqToSet(lows) : h1Idx < x /\ x < h2Idx}
    IN Match("M-top", <<<<"h1Idx", h1Idx>>, <<"h2Idx", h2Idx>>,
                        <<"lIdx", SetMin(between)>>>>)

\* C3: detectMTop examines the adjacent pairs of the last 4 high pivots from
\* the most recent pair backward and returns the first valid one with span
\* {H1, trough, H2}, none when no pair is valid; so two high pivots 1 % apart
\* around a low pivot 2 % below them give a match.
C3_MostRecentValidPairWins ==
    Done("detectMTop") =>
        LET lastHighs == SliceLast(PatternPivots.highs, 4)
            lows == PatternPivots.lows
            valid == {k \in 1 .. Len(lastHighs) - 1 : MTopPairValid(lastHighs, lows, k)}
        IN mTop = IF valid = {} THEN Null
                  ELSE MTopOfPair(lastHighs, lows, SetMax(valid))

\* head at least 1 % above the shoulder / strictly more than 1 % above it.
HeadClears(head, shoulder, strictly) ==
    IF strictly THEN 100 * head > 101 * shoulder ELSE 100 * head >= 101 * shoulder

\* Group (g, g+1, g+2) of `lastHighs` (one-based): the head clears each
\* shoulder, the shoulders are within 2 %, at least two low pivots lie
\* strictly between the shoulders, the first and the last of them within 2 %.
HsGroupValid(lastHighs, lows, g, strictly) ==
    LET lsIdx == lastHighs[g]
        rsIdx == lastHighs[g + 2]
        ls == At(candles, lsIdx).high
        head == At(candles, lastHighs[g + 1]).high
        rs == At(candles, rsIdx).high
        neck == {x \in SeqToSet(lows) : lsIdx < x /\ x < rsIdx}
        n1 == At(candles, SetMin(neck)).low
        n2 == At(candles, SetMax(neck)).low
    IN /\ HeadClears(head, ls, strictly)
       /\ HeadClears(head, rs, strictly)
       /\ 2000 * Abs(ls - rs) <= 20 * (ls + rs)
       /\ Cardinality(neck) >= 2
       /\ 2000 * Abs(n1 - n2) <= 20 * (n1 + n2)

HsOfGroup(lastHighs, lows, g) ==
    LET lsIdx == lastHighs[g]
        rsIdx == lastHighs[g + 2]
        neck == {x \in SeqToSet(lows) : lsIdx < x /\ x < rsIdx}
    IN Match("Head & Shoulders",
             <<<<"lsIdx", lsIdx>>, <<"headIdx", lastHighs[g + 1]>>, <<"rsIdx", rsIdx>>,
               <<"n1Idx", SetMin(neck)>>, <<"n2Idx", SetMax(neck)>>>>)

\* hs is the most recent valid group of 3 consecutive high pivots among the
\* last 6, none when there is no valid group.
HsIsMostRecentValidGroup(strictly) ==
    LET lastHighs == SliceLast(PatternPivots.highs, 6)
        lows == PatternPivots.lows
        valid == {g \in 1 .. Len(lastHighs) - 2 :
                     HsGroupValid(lastHighs, lows, g, strictly)}
    IN hs = IF valid = {} THEN Null ELSE HsOfGroup(lastHighs, lows, SetMax(valid))

\* C4 (as stated): detectHeadAndShoulders returns a match exactly when some
\* group of 3 consecutive high pivots among the last 6 is valid, where a head
\* exactly 1 % above a shoulder qualifies; the match is the most recent valid
\* group, with span {leftShoulder, head, rightShoulder, necklineLow1,
\* necklineLow2}.
C4_HeadAtLeastOnePercent ==
    Done("detectHeadAndShoulders") => HsIsMostRecentValidGroup(FALSE)

\* C4 (amended): the same, with the head strictly more than 1 % above each
\* shoulder (head > 1.01 * shoulder); a head exactly 1 % above does not qualify.
C4_HeadMoreThanOnePercent ==
    Done("detectHeadAndShoulders") => HsIsMostRecentValidGroup(TRUE)

\* A match whose head is 2 % above its shoulders, on the three most recent
\* of at least four high pivots.
C4_Witness ==
    /\ Done("detectHeadAndShoulders")
    /\ hs # Null
    /\ Len(PatternPivots.highs) >= 4
    /\ hs.indices[3][2] = PatternPivots.highs[Len(PatternPivots.highs)]
    /\ At(candles, hs.indices[2][2]).high = 1020
    /\ At(candles, hs.indices[1][2]).high = 1000

----------------------------------------------------------------------------
(* findPivots *)

InWindowRange(i, lb) == lb <= i /\ i < Len(candles) - lb

HighestInWindow(i, lb) ==
    \A j \in (i - lb) .. (i + lb) : At(candles, i).high >= At(candles, j).high

LowestInWindow(i, lb) ==
    \A j \in (i - lb) .. (i + lb) : At(candles, i).low <= At(candles, j).low

\* C5 (as stated): the high-pivot and the low-pivot index sequences are each
\* strictly increasing, and no index appears in both.
C5_IncreasingAndDisjoint ==
    Done("findPivots") =>
        /\ StrictlyIncreasing(pivots.highs)
        /\ StrictlyIncreasing(pivots.lows)
        /\ SeqToSet(pivots.highs) \cap SeqToSet(pivots.lows) = {}

\* C5 (amended): the high-pivot and the low-pivot index sequences are each
\* strictly increasing (an index may be in both: a candle holding its
\* window's highest high and lowest low).
C5_StrictlyIncreasing ==
    Done("findPivots") =>
        /\ StrictlyIncreasing(pivots.highs)
        /\ StrictlyIncreasing(pivots.lows)

\* Several pivots on each side, one index on both sides.
C5_Witness ==
    /\ Done("findPivots")
    /\ Len(pivots.highs) >= 2
    /\ Len(pivots.lows) >= 2
    /\ SeqToSet(pivots.highs) \cap SeqToSet(pivots.lows) # {}

\* C6: index i is a high pivot iff L <= i < length - L and candle i's high is
\* >= every high in [i-L, i+L]; a low pivot iff in range and its low is <=
\* every low in the window; so a flat run of equal highs gives a pivot at
\* each of its indices whose window it spans, and no index among the first L
\* or the last L is a pivot.
C6_PivotIffWindowExtreme ==
    Done("findPivots") =>
        /\ ~threw
        /\ \A i \in 0 .. Len(candles) - 1 :
              /\ i \in SeqToSet(pivots.highs) <=>
                    (InWindowRange(i, lookback) /\ HighestInWindow(i, lookback))
              /\ i \in SeqToSet(pivots.lows) <=>
                    (InWindowRange(i, lookback) /\ LowestInWindow(i, lookback))
        /\ SeqToSet(pivots.highs) \cup SeqToSet(pivots.lows) \subseteq
              lookback .. (Len(candles) - lookback - 1)

\* A flat top: every candle has the same high, lookback 1, and every index
\* whose window fits is a high pivot.
C6_Witness ==
    /\ Done("findPivots")
    /\ lookback = 1
    /\ Len(candles) >= 5
    /\ \A i \in 1 .. Len(candles) : candles[i].high = candles[1].high
    /\ SeqToSet(pivots.highs) = 1 .. (Len(candles) - 2)

----------------------------------------------------------------------------
(* Insufficient data *)

HighPivotCount == Cardinality({i \in 0 .. Len(candles) - 1 :
                      InWindowRange(i, PatternLookback) /\ HighestInWindow(i, PatternLookback)})

LowPivotCount == Cardinality({i \in 0 .. Len(candles) - 1 :
                     InWindowRange(i, PatternLookback) /\ LowestInWindow(i, PatternLookback)})

\* C10: too little data never raises a fault: on every series (empty, shorter
\* than 2 * lookback + 1, or with too few pivots for the shape) findPivots and
\* the four matchers complete, with empty pivot sets / none, and
\* detectPatternWithConfluence returns none instead of throwing.
C10_InsufficientDataIsSilent ==
    pc = "done" =>
        /\ ~threw
        /\ (op = "findPivots" /\ Len(candles) < 2 * lookback + 1) =>
              (pivots.highs = <<>> /\ pivots.lows = <<>>)
        /\ (op = "detectMTop" /\ (HighPivotCount < 2 \/ LowPivotCount < 1)) =>
              mTop = Null
        /\ (op = "detectInvertedM" /\ (LowPivotCount < 2 \/ HighPivotCount < 1)) =>
              invM = Null
        /\ (op = "detectHeadAndShoulders" /\ (HighPivotCount < 3 \/ LowPivotCount < 2)) =>
              hs = Null
        /\ (op = "detectInverseHeadAndShoulders"
                /\ (LowPivotCount < 3 \/ HighPivotCount < 2)) =>
              invHs = Null
        /\ (op = "detectPatternWithConfluence"
                /\ Len(candles) < 2 * PatternLookback + 1) =>
              signal = Null

\* The whole pipeline on the empty series under bearish confluence: no
\* exception, no signal.
C10_Witness ==
    /\ Done("detectPatternWithConfluence")
    /\ candles = <<>>
    /\ BothTrends("bearish")
    /\ ~threw
    /\ signal = Null

----------------------------------------------------------------------------
(* detectTrendHTF *)

LastOf(q) == q[Len(q)]

LastClose == Rat(candles[Len(candles)].close, 1)
LastEma50 == LastOf(ema(Closes(candles), 50))
LastEma200 == LastOf(ema(Closes(candles), 200))

\* C7: fewer than 60 candles give neutral; 60 <= length < 200 gives neutral
\* with the EMA-data reason whatever the prices; bullish, bearish and
\* sideways come only from series of at least 200 candles.
C7_NeutralBelow200 ==
    Done("detectTrendHTF") =>
        /\ Len(candles) < 60 => trend.trend = "neutral"
        /\ (60 <= Len(candles) /\ Len(candles) < 200) =>
              trend = TrendResult("neutral", "Not enough EMA data")
        /\ trend.trend \in {"bullish", "bearish", "sideways"} => Len(candles) >= 200

\* 199 candles whose last close is off the rest: neutral for lack of EMA data.
C7_Witness ==
    /\ Done("detectTrendHTF")
    /\ Len(candles) = 199
    /\ candles[199].close # candles[1].close
    /\ trend = TrendResult("neutral", "Not enough EMA data")

\* C8: with at least 200 candles the trend is bullish iff last close > last
\* EMA50 > last EMA200, bearish iff last close < last EMA50 < last EMA200,
\* sideways in every other case (any equality included); exactly one of the
\* three holds.
C8_ClassifiesOnLastValues ==
    (Done("detectTrendHTF") /\ Len(candles) >= 200) =>
        LET up == RatLT(LastEma50, LastClose) /\ RatLT(LastEma200, LastEma50)
            down == RatLT(LastClose, LastEma50) /\ RatLT(LastEma50, LastEma200)
        IN /\ trend.trend \in {"bullish", "bearish", "sideways"}
           /\ trend.trend = "bullish" <=> up
           /\ trend.trend = "bearish" <=> down
           /\ trend.trend = "sideways" <=> (~up /\ ~down)
           /\ ~(up /\ down)

\* Close, EMA50 and EMA200 all equal: sideways.
C8_Witness ==
    /\ Done("detectTrendHTF")
    /\ Len(candles) >= 200
    /\ LastClose = LastEma50
    /\ LastEma50 = LastEma200
    /\ trend.trend = "sideways"

----------------------------------------------------------------------------
(* buildPatternSignal *)

\* The match the gate handed to buildPatternSignal.
ChosenMatch ==
    IF signal.pattern = "M-top" THEN mTop
    ELSE IF signal.pattern = "Head & Shoulders" THEN hs
    ELSE IF signal.pattern = "Inverted M" THEN invM
    ELSE invHs

\* C9: whatever the order of the match's span indices, the signal's window
\* starts at the time of the candle at the least span index and ends at the
\* time of the candle at the greatest, so start <= end; direction, pattern
\* kind and timeframe label are the inputs'.
C9_WindowFromMinToMaxIndex ==
    (Done("detectPatternWithConfluence") /\ signal # Null) =>
        /\ signal.pattern \in {mTop.type, hs.type, invM.type, invHs.type} \ {"null"}
        /\ signal.from = toISOString(At(candles, SetMin(SpanOf(ChosenMatch))).time)
        /\ signal.to = toISOString(At(candles, SetMax(SpanOf(ChosenMatch))).time)
        /\ IsoLeq(signal.from, signal.to)
        /\ signal.timeframe = tfLabel
        /\ signal.direction = dayTrend.trend

\* A signal whose match lists its indices out of chronological order (the
\* last one given is not the greatest) and whose window crosses a day.
C9_Witness ==
    /\ Done("detectPatternWithConfluence")
    /\ signal # Null
    /\ LET given == ObjectValues(ChosenMatch.indices)
       IN given[Len(given)] < SetMax(SpanOf(ChosenMatch))
    /\ signal.from.day < signal.to.day
    /\ signal.to.hour < signal.from.hour

----------------------------------------------------------------------------
(* GET /api/scan: order of evaluation *)

IsPrefix(a, b) == Len(a) <= Len(b) /\ a = SubSeq(b, 1, Len(a))

\* Every fetchSeries call one request can make, in the handler's order.
FetchOrder ==
    <<HTF_DAY.interval, HTF_WEEK.interval>> \o
    [k \in 1 .. Len(PATTERN_TIMEFRAMES) |-> PATTERN_TIMEFRAMES[k].interval]

TfPosition(key) ==
    CHOOSE k \in 1 .. Len(PATTERN_TIMEFRAMES) : PATTERN_TIMEFRAMES[k].key = key

SignalsFound == {k \in 1 .. Len(evaluated) : evaluated[k].signal # Null}

\* C11: within one /api/scan request (a) the series are requested in the
\* order day, week, 1h, 4h and the timeframes are evaluated in the order 1h,
\* 4h; (b) no intraday series is requested or evaluated before both
\* higher-timeframe series have resolved and both trends are computed from
\* them; (c) only the last evaluation made can have yielded a signal, and
\* once it has, no further timeframe is requested; (d) at most one signal is
\* produced: bestSignal is that signal, and at most one store is attempted.
C11_FixedOrderFirstSignalWins ==
    /\ IsPrefix(fetchLog, FetchOrder)
    /\ \A j, k \in 1 .. Len(evaluated) :
          j < k => TfPosition(evaluated[j].timeframe) < TfPosition(evaluated[k].timeframe)
    /\ (Len(fetchLog) > 2 \/ evaluated # <<>>) =>
          /\ dayFetch = "resolved" /\ weekFetch = "resolved"
          /\ dayTrend = detectTrendHTF(dayCandles)
          /\ weekTrend = detectTrendHTF(weekCandles)
    /\ \A k \in SignalsFound :
          /\ k = Len(evaluated)
          /\ fetchLog[Len(fetchLog)] = PATTERN_TIMEFRAMES[TfPosition(evaluated[k].timeframe)].interval
          /\ bestSignal = evaluated[k].signal
    /\ Cardinality(SignalsFound) <= 1
    /\ (SignalsFound = {} => bestSignal = Null)
    /\ storeAttempts <= 1
    /\ Len(signals) <= 1

\* A request answered with a signal found on 1h: the 4h series was never
\* requested.
C11_Witness ==
    /\ scanPc = "responded"
    /\ response.status = 200
    /\ Len(evaluated) = 1
    /\ evaluated[1].timeframe = "1h"
    /\ evaluated[1].signal # Null
    /\ response.body.signal = evaluated[1].signal
    /\ fetchLog = <<"1day", "1week", "1h">>

----------------------------------------------------------------------------
(* GET /api/scan: persistence *)

\* What detection alone makes of the series the request received: the
\* intraday results are read in order from entry k on, lc being the last
\* close seen so far.
RECURSIVE DetectionOutcome(_, _)
DetectionOutcome(k, lc) ==
    IF k > Len(fetched) THEN [lastClose |-> lc, signal |-> Null]
    ELSE IF Len(fetched[k].result) = 0 THEN DetectionOutcome(k + 1, lc)
    ELSE LET series == fetched[k].result
             sig == detectPatternWithConfluence(series, fetched[k].timeframe,
                       detectTrendHTF(dayCandles), detectTrendHTF(weekCandles))
         IN IF sig # Null
            THEN [lastClose |-> series[Len(series)].close, signal |-> sig]
            ELSE DetectionOutcome(k + 1, series[Len(series)].close)

SomeFetchRejected ==
    \/ dayFetch = "rejected"
    \/ weekFetch = "rejected"
    \/ \E k \in 1 .. Len(fetched) : ~fetched[k].ok

\* C12: persistence does not affect detection.  A request with a symbol
\* whose fetches all succeeded is answered 200 with the day trend, the week
\* trend, the last close and the signal that detection alone gives, whether
\* MONGODB_URI is unset, the store succeeded or the store failed; the only
\* 500 is a failed fetch.  Signal.create is called only with a signal and
\* with MONGODB_URI set, and a document is stored only by such a call.
C12_PersistenceDoesNotAffectDetection ==
    /\ storeAttempts > 0 => (bestSignal # Null /\ mongoUri # "")
    /\ Len(signals) <= storeAttempts
    /\ (scanPc = "responded" /\ symbol # "") =>
          IF SomeFetchRejected THEN response = ServerError /\ storeAttempts = 0
          ELSE LET out == DetectionOutcome(1, Null)
               IN response = Ok([symbol |-> symbol,
                                 lastClose |-> out.lastClose,
                                 dayTrend |-> detectTrendHTF(dayCandles).trend,
                                 weekTrend |-> detectTrendHTF(weekCandles).trend,
                                 signal |-> out.signal])

\* A request whose signal could not be stored, answered 200 with the signal.
C12_Witness ==
    /\ scanPc = "responded"
    /\ mongoUri # ""
    /\ storeAttempts = 1
    /\ signals = <<>>
    /\ response.status = 200
    /\ response.body.signal # Null

----------------------------------------------------------------------------
(* Browser orchestration: Start, Stop, the interval timer and the ticks *)

MaxPairs == 2
MaxTicks == 3

PAIRS ==
    <<"BTC/USD", "EUR/AUD", "EUR/GBP", "GBP/JPY", "GBP/USD", "AUD/NZD", "CHF/JPY",
      "NZD/USD">>

\* The pairs a tick goes through: the first MaxPairs of PAIRS.
ScannedPairs == SubSeq(PAIRS, 1, Min2(MaxPairs, Len(PAIRS)))

\* tick() is called: `for (const pair of PAIRS)` reaches its first
\* `await scanPair(pair)`, whose fetch goes out at once.  `loop` is the
\* runScanLoop call the tick belongs to (the index of that call's first
\* tick) and `first` tells the tick runScanLoop awaits from the ticks the
\* interval timer starts.
NewTick(loopId, isFirst) ==
    [pair |-> 1, at |-> "scan", loop |-> loopId, first |-> isFirst]

\* Lines 214-233 up to the await: the status line, the buttons, tick().
runScanLoop ==
    /\ status' = "Running"
    /\ startDisabled' = TRUE
    /\ stopDisabled' = FALSE
    /\ ticks' = Append(ticks, NewTick(Len(ticks) + 1, TRUE))
    /\ requests' = requests + 1
    /\ UNCHANGED <<pollingTimer, timers>>

\* Lines 236-244.
stopScanLoop ==
    /\ IF pollingTimer # NoTimer
       THEN /\ timers' = timers \ {pollingTimer}
            /\ pollingTimer' = NoTimer
       ELSE UNCHANGED <<pollingTimer, timers>>
    /\ status' = "Stopped"
    /\ startDisabled' = FALSE
    /\ stopDisabled' = TRUE

\* Lines 252-254: a click on #startBtn (a disabled button gets no click).
StartClick ==
    /\ ~startDisabled
    /\ lastClick' = "start"
    /\ IF pollingTimer = NoTimer
       THEN /\ Len(ticks) < MaxTicks
            /\ runScanLoop
       ELSE UNCHANGED <<pollingTimer, timers, ticks, status, startDisabled,
                        stopDisabled, requests>>
    /\ UNCHANGED <<engineVars, scanVars>>

\* Lines 256-258: a click on #stopBtn.
StopClick ==
    /\ ~stopDisabled
    /\ lastClick' = "stop"
    /\ stopScanLoop
    /\ UNCHANGED <<ticks, requests>>
    /\ UNCHANGED <<engineVars, scanVars>>

\* Lines 179-212 and 227-229: the /api/scan request of tick t completes (with
\* a result or an error, scanPair catches both) and the tick starts its
\* 60 s sleep.
ScanCompletes(t) ==
    /\ ticks[t].at = "scan"
    /\ ticks' = [ticks EXCEPT ![t].at = "sleep"]
    /\ UNCHANGED <<pollingTimer, timers, status, startDisabled, stopDisabled,
                   requests, lastClick>>
    /\ UNCHANGED <<engineVars, scanVars>>

\* Lines 226-234: the sleep of tick t ends.  The loop goes to the next pair
\* and sends its request, or the tick ends; when the tick that ends is the
\* one runScanLoop awaits, runScanLoop arms the interval timer and stores it
\* in pollingTimer.
SleepEnds(t) ==
    /\ ticks[t].at = "sleep"
    /\ IF ticks[t].pair < Len(ScannedPairs)
       THEN /\ ticks' = [ticks EXCEPT ![t].pair = @ + 1, ![t].at = "scan"]
            /\ requests' = requests + 1
            /\ UNCHANGED <<pollingTimer, timers>>
       ELSE /\ ticks' = [ticks EXCEPT ![t].at = "done"]
            /\ UNCHANGED requests
            /\ IF ticks[t].first
               THEN /\ pollingTimer' = t
                    /\ timers' = timers \cup {t}
               ELSE UNCHANGED <<pollingTimer, timers>>
    /\ UNCHANGED <<status, startDisabled, stopDisabled, lastClick>>
    /\ UNCHANGED <<engineVars, scanVars>>

\* Line 233: an armed interval timer fires and calls tick().
TimerFires(id) ==
    /\ id \in timers
    /\ Len(ticks) < MaxTicks
    /\ ticks' = Append(ticks, NewTick(id, FALSE))
    /\ requests' = requests + 1
    /\ UNCHANGED <<pollingTimer, timers, status, startDisabled, stopDisabled,
                   lastClick>>
    /\ UNCHANGED <<engineVars, scanVars>>

InitBrowser ==
    /\ InitEngine(<<>>)
    /\ ScanIdle("", "")
    /\ \E stopOff \in BOOLEAN : BrowserIdle(stopOff)

NextBrowser ==
    \/ StartClick
    \/ StopClick
    \/ \E t \in 1 .. Len(ticks) : ScanCompletes(t)
    \/ \E t \in 1 .. Len(ticks) : SleepEnds(t)
    \/ \E id \in timers : TimerFires(id)

\* The page, from DOMContentLoaded on.
SpecBrowser == InitBrowser /\ [][NextBrowser]_vars

----------------------------------------------------------------------------
(* Browser orchestration: properties *)

ActiveTicks == {t \in 1 .. Len(ticks) : ticks[t].at # "done"}

\* The runScanLoop calls that still have a tick in progress or an armed timer.
ActiveLoops == {ticks[t].loop : t \in ActiveTicks} \cup timers

\* The ticks whose /api/scan request for the k-th pair is in flight.
InFlight(k) == {t \in 1 .. Len(ticks) : ticks[t].at = "scan" /\ ticks[t].pair = k}

\* C13: under every interleaving of Start clicks, Stop clicks, timer
\* firings and scan completions at most one polling loop is active (its tick
\* in progress, or its interval timer armed and referenced by pollingTimer),
\* and no symbol has two /api/scan requests in flight at the same time.
C13_AtMostOneLoop ==
    /\ Cardinality(ActiveLoops) <= 1
    /\ timers \subseteq {pollingTimer}
    /\ \A k \in 1 .. Len(ScannedPairs) : Cardinality(InFlight(k)) <= 1

\* C14: Stop halts polling.  Whenever the status shows 'Stopped'
\* pollingTimer is null; after a Stop click and until the next Start click no
\* interval timer is armed and no /api/scan request is issued.
C14_StopHaltsPolling ==
    /\ [](status = "Stopped" => pollingTimer = NoTimer)
    /\ [](lastClick = "stop" => timers = {})
    /\ [][(lastClick = "stop" /\ lastClick' = "stop") => requests' = requests]_vars

====
